---------------------------- MODULE Spec2Model ----------------------------
(***************************************************************************)
(* A model of resample.go: the Resampler configuration (NewResampler), the *)
(* buffer adapter (ResampleFloat64), the 16-bit adapter (ResampleInt16),   *)
(* the per-channel resampler (resampleChannelData) and the spline          *)
(* evaluator (spline, splineZ0..Z2, splineM1/M2, splineC1/C2).             *)
(*                                                                         *)
(* Three specifications share the variables:                               *)
(*   Spec         a caller constructs a Resampler, hands a buffer to       *)
(*                ResampleFloat64 or ResampleInt16 and writes to the       *)
(*                buffer it gets back;                                     *)
(*   SpecChannel  one run of resampleChannelData, an iteration at a time;  *)
(*   SpecConc     two goroutines call on one Resampler, step by step.      *)
(*                                                                         *)
(* Go's float64 is modelled bit-exactly for finite values: a float is a    *)
(* sign, a 53-bit significand and a binary exponent, and every operation   *)
(* rounds to nearest, ties to even, as IEEE 754 binary64 does.  TLC's      *)
(* integers are 32 bits wide, so significands are kept as little-endian    *)
(* sequences of 15-bit limbs.  Infinities, NaN and subnormal numbers are   *)
(* not represented: no value of the model comes near 2^-1022 or 2^1024,    *)
(* and every divisor in the source is non-zero.                            *)
(***************************************************************************)
EXTENDS Integers, Sequences, FiniteSets, TLC

(***************************************************************************)
(* Natural numbers of any size: little-endian limbs, no leading zero limb, *)
(* zero is << >>.                                                          *)
(***************************************************************************)
LimbBits == 15

Limb == 32768

RECURSIVE Pow2(_)
Pow2(k) == IF k = 0 THEN 1 ELSE 2 * Pow2(k - 1)

RECURSIVE BigNorm(_)
BigNorm(a) ==
    IF a = << >> THEN << >>
    ELSE IF a[Len(a)] = 0 THEN BigNorm(SubSeq(a, 1, Len(a) - 1))
    ELSE a

RECURSIVE BigFromInt(_)
BigFromInt(n) ==
    IF n = 0 THEN << >> ELSE <<n % Limb>> \o BigFromInt(n \div Limb)

RECURSIVE BigToInt(_)
BigToInt(a) ==
    IF a = << >> THEN 0 ELSE a[1] + Limb * BigToInt(Tail(a))

RECURSIVE BigAddC(_, _, _)
BigAddC(a, b, c) ==
    IF a = << >> /\ b = << >> THEN (IF c = 0 THEN << >> ELSE <<c>>)
    ELSE LET x == IF a = << >> THEN 0 ELSE a[1]
             y == IF b = << >> THEN 0 ELSE b[1]
             s == x + y + c
         IN  <<s % Limb>> \o BigAddC(IF a = << >> THEN a ELSE Tail(a),
                                     IF b = << >> THEN b ELSE Tail(b),
                                     s \div Limb)

BigAdd(a, b) == BigAddC(a, b, 0)

\* a - b - c for a >= b + c, before the leading zero limbs are dropped
RECURSIVE BigSubB(_, _, _)
BigSubB(a, b, c) ==
    IF a = << >> THEN << >>
    ELSE LET y == IF b = << >> THEN 0 ELSE b[1]
             d == a[1] - y - c
         IN  <<IF d < 0 THEN d + Limb ELSE d>>
                 \o BigSubB(Tail(a), IF b = << >> THEN b ELSE Tail(b),
                            IF d < 0 THEN 1 ELSE 0)

BigSub(a, b) == BigNorm(BigSubB(a, b, 0))

\* -1, 0 or 1 as a < b, a = b or a > b
RECURSIVE BigCmpFrom(_, _, _)
BigCmpFrom(a, b, i) ==
    IF i = 0 THEN 0
    ELSE IF a[i] < b[i] THEN -1
    ELSE IF a[i] > b[i] THEN 1
    ELSE BigCmpFrom(a, b, i - 1)

BigCmp(a, b) ==
    IF Len(a) < Len(b) THEN -1
    ELSE IF Len(a) > Len(b) THEN 1
    ELSE BigCmpFrom(a, b, Len(a))

\* a * d + c for a limb-sized d and carry c
RECURSIVE BigMulSmall(_, _, _)
BigMulSmall(a, d, c) ==
    IF a = << >> THEN (IF c = 0 THEN << >> ELSE <<c>>)
    ELSE LET p == a[1] * d + c
         IN  <<p % Limb>> \o BigMulSmall(Tail(a), d, p \div Limb)

RECURSIVE BigMul(_, _)
BigMul(a, b) ==
    IF a = << >> \/ b = << >> THEN << >>
    ELSE BigAdd(BigMulSmall(a, b[1], 0),
                LET r == BigMul(a, Tail(b))
                IN  IF r = << >> THEN r ELSE <<0>> \o r)

BigShl(a, k) ==
    IF a = << >> THEN a
    ELSE [i \in 1..(k \div LimbBits) |-> 0]
             \o BigMulSmall(a, Pow2(k % LimbBits), 0)

\* floor(a / 2^k)
BigShr(a, k) ==
    LET q == k \div LimbBits
        r == k % LimbBits
        n == Len(a) - q
        lo == Pow2(r)
        hi == Pow2(LimbBits - r)
    IN  IF n <= 0 THEN << >>
        ELSE BigNorm([i \in 1..n |->
                 (a[q + i] \div lo)
                     + (IF i < n THEN (a[q + i + 1] % lo) * hi ELSE 0)])

RECURSIVE BitLen(_)
BitLen(n) == IF n = 0 THEN 0 ELSE 1 + BitLen(n \div 2)

BigBitLen(a) ==
    IF a = << >> THEN 0 ELSE LimbBits * (Len(a) - 1) + BitLen(a[Len(a)])

\* bit i (bit 0 is the lowest) of a
BigBit(a, i) ==
    LET q == i \div LimbBits
    IN  IF q + 1 > Len(a) THEN 0 ELSE (a[q + 1] \div Pow2(i % LimbBits)) % 2

\* are the k lowest bits of a all zero
BigLowZero(a, k) ==
    LET q == k \div LimbBits
    IN  /\ \A i \in 1..q : i > Len(a) \/ a[i] = 0
        /\ (q + 1 > Len(a) \/ a[q + 1] % Pow2(k % LimbBits) = 0)

\* <<q, r>> with a = q * d + r and 0 <= r < d, given a lower estimate q of
\* the quotient and r = a - q * d
RECURSIVE BigDivFix(_, _, _)
BigDivFix(q, r, d) ==
    IF BigCmp(r, d) < 0 THEN <<q, r>> ELSE BigDivFix(q + 1, BigSub(r, d), d)

\* <<q, r>> with a = q * d + r and 0 <= r < d, given a lower estimate q0 of
\* the quotient
BigDivFrom(a, d, q0) == BigDivFix(q0, BigSub(a, BigMulSmall(d, q0, 0)), d)

\* the same, the estimate taken from the bits of a and d above bit t
BigDivEst(a, d, t) ==
    BigDivFrom(a, d,
               IF t <= 0 THEN 0
               ELSE BigToInt(BigShr(a, t)) \div (BigToInt(BigShr(d, t)) + 1))

\* <<q, r>> with a = q * d + r and 0 <= r < d, for a < d * 2^15: the
\* estimate from the leading 15 bits of d is never above the quotient
BigDivLimb(a, d) == BigDivEst(a, d, BigBitLen(d) - LimbBits)

\* <<quotient, remainder>> of r * 2^(15 n) / d for r < d; q collects the
\* quotient's limbs, s is the <<limb, remainder>> just computed
RECURSIVE BigDivLimbs(_, _, _, _)
RECURSIVE BigDivNext(_, _, _, _)
BigDivLimbs(r, d, n, q) ==
    IF n = 0 THEN <<BigNorm(q), r>>
    ELSE BigDivNext(BigDivLimb(BigShl(r, LimbBits), d), d, n, q)

BigDivNext(s, d, n, q) == BigDivLimbs(s[2], d, n - 1, <<s[1]>> \o q)

(***************************************************************************)
(* float64                                                                 *)
(***************************************************************************)
MantBits == 53

\* limbs of quotient computed by a division: 60 bits, over the 53 kept
DivLimbs == 4

FZero == [sign |-> 0, exp |-> 0, man |-> << >>]

IsZeroF(a) == a.man = << >>

\* the float of sign, significand q1 of 53 or 54 bits and exponent exp
FPack(sign, q1, exp) ==
    IF BigBitLen(q1) > MantBits
    THEN [sign |-> sign, exp |-> exp + 1, man |-> BigShr(q1, 1)]
    ELSE [sign |-> sign, exp |-> exp, man |-> q1]

\* q is the 53 leading bits; half is the first bit cut off and rest says
\* that something lies below it: round to nearest, ties to even
FRoundUp(sign, q, exp, half, rest) ==
    FPack(sign,
          IF half /\ (rest \/ BigBit(q, 0) = 1) THEN BigAdd(q, <<1>>) ELSE q,
          exp)

\* FRound for a non-zero big of L bits
FRoundLen(sign, big, exp, sticky, L) ==
    IF L <= MantBits
    THEN [sign |-> sign, exp |-> exp - (MantBits - L),
          man |-> BigShl(big, MantBits - L)]
    ELSE FRoundUp(sign, BigShr(big, L - MantBits), exp + (L - MantBits),
                  BigBit(big, L - MantBits - 1) = 1,
                  sticky \/ ~BigLowZero(big, L - MantBits - 1))

\* the float64 nearest to (-1)^sign * (big + f) * 2^exp, where 0 <= f < 1
\* and sticky says f > 0; ties go to the even significand
FRound(sign, big, exp, sticky) ==
    IF big = << >> THEN [FZero EXCEPT !.sign = sign]
    ELSE FRoundLen(sign, big, exp, sticky, BigBitLen(big))

\* float64(n) for an integer n
FInt(n) == FRound(IF n < 0 THEN 1 ELSE 0,
                  BigFromInt(IF n < 0 THEN -n ELSE n), 0, FALSE)

FNeg(a) == [a EXCEPT !.sign = 1 - a.sign]

\* a + b for significands A and B aligned at exponent e; c compares A and B
FAddMan(sa, sb, A, B, e, c) ==
    IF sa # sb /\ c = 0 THEN FZero
    ELSE FRound(IF sa = sb \/ c > 0 THEN sa ELSE sb,
                IF sa = sb THEN BigAdd(A, B)
                ELSE IF c > 0 THEN BigSub(A, B) ELSE BigSub(B, A),
                e, FALSE)

FAddAligned(sa, sb, A, B, e) == FAddMan(sa, sb, A, B, e, BigCmp(A, B))

FAddAt(a, b, e) ==
    FAddAligned(a.sign, b.sign, BigShl(a.man, a.exp - e),
                BigShl(b.man, b.exp - e), e)

FAdd(a, b) ==
    IF IsZeroF(a) /\ IsZeroF(b)
    THEN [FZero EXCEPT !.sign = IF a.sign = 1 /\ b.sign = 1 THEN 1 ELSE 0]
    ELSE IF IsZeroF(a) THEN b
    ELSE IF IsZeroF(b) THEN a
    ELSE FAddAt(a, b, IF a.exp < b.exp THEN a.exp ELSE b.exp)

FSub(a, b) == FAdd(a, FNeg(b))

FMul(a, b) ==
    LET s == (a.sign + b.sign) % 2
    IN  IF IsZeroF(a) \/ IsZeroF(b) THEN [FZero EXCEPT !.sign = s]
        ELSE IF BigLowZero(b.man, MantBits - 1)
        THEN [sign |-> s, exp |-> a.exp + b.exp + (MantBits - 1), man |-> a.man]
        ELSE IF BigLowZero(a.man, MantBits - 1)
        THEN [sign |-> s, exp |-> a.exp + b.exp + (MantBits - 1), man |-> b.man]
        ELSE FRound(s, BigMul(a.man, b.man), a.exp + b.exp, FALSE)

\* the quotient's limbs and remainder qr, rounded
FDivRound(s, qr, exp) == FRound(s, qr[1], exp, qr[2] # << >>)

\* a / b for non-zero a and b; ge says that a's significand is not below b's
FDivMan(a, b, s, ge) ==
    FDivRound(s,
              BigDivLimbs(IF ge THEN BigSub(a.man, b.man) ELSE a.man,
                          b.man, DivLimbs, IF ge THEN <<1>> ELSE << >>),
              a.exp - b.exp - DivLimbs * LimbBits)

\* a / b for b # 0
FDiv(a, b) ==
    IF IsZeroF(a) THEN [FZero EXCEPT !.sign = (a.sign + b.sign) % 2]
    ELSE IF BigLowZero(b.man, MantBits - 1)
    THEN [sign |-> (a.sign + b.sign) % 2,
          exp |-> a.exp - b.exp - (MantBits - 1), man |-> a.man]
    ELSE FDivMan(a, b, (a.sign + b.sign) % 2, BigCmp(a.man, b.man) >= 0)

\* -1, 0 or 1 as d is negative, zero or positive
FSign(d) == IF IsZeroF(d) THEN 0 ELSE IF d.sign = 1 THEN -1 ELSE 1

\* -1, 0 or 1 as a < b, a == b or a > b (the two zeros are equal)
FCmp(a, b) == FSign(FSub(a, b))

FLt(a, b) == FCmp(a, b) < 0

FLe(a, b) == FCmp(a, b) <= 0

FEq(a, b) == FCmp(a, b) = 0

\* the integer part of |a|, as an integer
FTruncAbs(a) ==
    IF IsZeroF(a) THEN 0
    ELSE IF a.exp >= 0 THEN BigToInt(BigShl(a.man, a.exp))
    ELSE BigToInt(BigShr(a.man, -a.exp))

\* is a an integer
FIsInt(a) == IsZeroF(a) \/ a.exp >= 0 \/ BigLowZero(a.man, -a.exp)

\* the conversion int(a), uint64(a), int16(a) of a value in the target's range:
\* the fraction is discarded (truncation towards zero)
FTrunc(a) == IF a.sign = 1 THEN -FTruncAbs(a) ELSE FTruncAbs(a)

\* int(math.Ceil(a))
FCeilInt(a) ==
    IF FIsInt(a) \/ a.sign = 1 THEN FTrunc(a) ELSE FTruncAbs(a) + 1

(***************************************************************************)
(* The literals of the source                                              *)
(***************************************************************************)
F0x7FFF == FInt(32767)

FOne == FInt(1)

FMinusOne == FInt(-1)

FTwo == FInt(2)

FThree == FInt(3)

FSix == FInt(6)

F3p75 == FDiv(FInt(15), FInt(4))

FMinus7p75 == FDiv(FInt(-31), FInt(4))

(***************************************************************************)
(* The spline evaluator.  yi is the window of 4 samples, yi[1] = y0 ...    *)
(* yi[4] = y3.                                                             *)
(***************************************************************************)
splineC1(yi) ==
    FMul(FThree, FSub(FSub(yi[3], yi[2]), FSub(yi[2], yi[1])))

splineC2(yi) ==
    FMul(FThree, FSub(FSub(yi[4], yi[3]), FSub(yi[3], yi[2])))

splineM1(c1, c2) == FDiv(FSub(FMul(c1, FTwo), FDiv(c2, FTwo)), F3p75)

splineM2(c1, c2) == FDiv(FSub(FDiv(c1, FTwo), FMul(c2, FTwo)), FMinus7p75)

\* splineZ0 with the sign of the y0 term lost
splineZ0NoSign(m1, h0, x0, x1, y0, y1, x) ==
    FAdd(FAdd(FDiv(FMul(FMul(FMul(FSub(x, x0), FSub(x, x0)), FSub(x, x0)), m1),
                   FMul(FSix, h0)),
              FDiv(FMul(y0, FSub(x, x1)), h0)),
         FDiv(FMul(FSub(y1, FDiv(FMul(FMul(h0, h0), m1), FSix)), FSub(x, x0)),
              h0))

splineZ0(m1, h0, x0, x1, y0, y1, x) ==
    LET dx == FSub(x, x0)
        v1 == FDiv(FMul(FMul(FMul(dx, dx), dx), m1), FMul(FSix, h0))
        v2 == FDiv(FMul(FMul(FMinusOne, y0), FSub(x, x1)), h0)
        v3 == FDiv(FMul(FSub(y1, FDiv(FMul(FMul(h0, h0), m1), FSix)), dx), h0)
    IN  FAdd(FAdd(v1, v2), v3)

splineZ1(m1, m2, h1, x1, x2, y1, y2, x) ==
    LET d2 == FSub(x, x2)
        d1 == FSub(x, x1)
        v0 == FDiv(FMul(FMul(FMul(FMul(FMinusOne, d2), d2), d2), m1),
                   FMul(FSix, h1))
        v1 == FDiv(FMul(FMul(FMul(d1, d1), d1), m2), FMul(FSix, h1))
        v2 == FDiv(FMul(FMul(FMinusOne,
                             FSub(y1, FDiv(FMul(FMul(h1, h1), m1), FSix))),
                        d2), h1)
        v3 == FDiv(FMul(FSub(y2, FDiv(FMul(FMul(h1, h1), m2), FSix)), d1), h1)
    IN  FAdd(FAdd(FAdd(v0, v1), v2), v3)

splineZ2(m2, h2, x2, x3, y2, y3, x) ==
    LET d3 == FSub(x, x3)
        v0 == FDiv(FMul(FMul(FMul(FMul(FMinusOne, d3), d3), d3), m2),
                   FMul(FSix, h2))
        v2 == FDiv(FMul(FMul(FMinusOne,
                             FSub(y2, FDiv(FMul(FMul(h2, h2), m2), FSix))),
                        d3), h2)
        v3 == FDiv(FMul(y3, FSub(x, x2)), h2)
    IN  FAdd(FAdd(v0, v2), v3)

\* which of the three sub-interval formulas spline evaluates: 0, 1 or 2
splineBranch(xi, xo) ==
    IF FLe(xo, FAdd(xi, FOne)) THEN 0
    ELSE IF FLe(xo, FAdd(xi, FTwo)) THEN 1
    ELSE 2

\* the body of spline once the moments m1 and m2 are known
splineEval(m1, m2, xi, yi, xo) ==
    IF splineBranch(xi, xo) = 0
    THEN splineZ0(m1, FOne, xi, FAdd(xi, FOne), yi[1], yi[2], xo)
    ELSE IF splineBranch(xi, xo) = 1
    THEN splineZ1(m1, m2, FOne, FAdd(xi, FOne), FAdd(xi, FTwo),
                  yi[2], yi[3], xo)
    ELSE splineZ2(m2, FOne, FAdd(xi, FTwo), FAdd(xi, FThree),
                  yi[3], yi[4], xo)

spline(xi, yi, xo) ==
    LET c1 == splineC1(yi)
        c2 == splineC2(yi)
    IN  splineEval(splineM1(c1, c2), splineM2(c1, c2), xi, yi, xo)

(***************************************************************************)
(* The per-channel resampler.  r is a Resampler, data a sequence of        *)
(* floats (Go's index k is position k + 1 here).                           *)
(***************************************************************************)
\* the samples resampleChannelData keeps as lookahead margin
Margin == 16

\* make([]float64, n): n zeros
RECURSIVE Zeros(_)
Zeros(n) == IF n <= 0 THEN << >> ELSE Append(Zeros(n - 1), FZero)

\* availSamples that keeps no margin
availSamplesNoMargin(data) == Len(data)

availSamples(data) == Len(data) - Margin

channelFrom(r) == FDiv(FInt(r.FromRate), FInt(r.Channels))

channelTo(r) == FDiv(FInt(r.ToRate), FInt(r.Channels))

step(r) == FDiv(channelFrom(r), channelTo(r))

\* len(output) as allocated: int(math.Ceil(float64(availSamples)/step))
outputCap(r, data) == FCeilInt(FDiv(FInt(availSamples(data)), step(r)))

\* the loop started at x = 0
LoopInitAtZero(r, data) ==
    [x |-> FZero, i |-> 0, output |-> Zeros(outputCap(r, data)), ok |-> TRUE]

\* the loop's state before its first test: x = step, i = 0, output zeroed;
\* ok turns FALSE at the first index out of range, where Go panics
LoopInit(r, data) ==
    [x |-> step(r), i |-> 0, output |-> Zeros(outputCap(r, data)),
     ok |-> TRUE]

\* the loop condition x < float64(availSamples)
LoopTest(data, st) == FLt(st.x, FInt(availSamples(data)))

\* the base index rounded up
xi0Ceil(x) == FInt(FCeilInt(x))

\* xi0 of the iteration at cursor x: float64(uint64(x))
xi0(x) == FInt(FTrunc(x))

\* the rest of the loop body once xi0 = xi and yi0 = yi are known, and
\* x += step
LoopWrite(r, data, st, xi, yi) ==
    IF yi + 4 > Len(data) \/ st.i >= Len(st.output)
    THEN [st EXCEPT !.ok = FALSE]
    ELSE [x |-> FAdd(st.x, step(r)),
          i |-> st.i + 1,
          output |-> [st.output EXCEPT ![st.i + 1] =
                         FDiv(spline(xi, SubSeq(data, yi + 1, yi + 4), st.x),
                              F0x7FFF)],
          ok |-> TRUE]

\* yi0 := uint64(xi0)
LoopIndex(r, data, st, xi) == LoopWrite(r, data, st, xi, FTrunc(xi))

\* one iteration of the loop body
LoopBody(r, data, st) == LoopIndex(r, data, st, xi0(st.x))

RECURSIVE Loop(_, _, _)
Loop(r, data, st) ==
    IF st.ok /\ LoopTest(data, st) THEN Loop(r, data, LoopBody(r, data, st))
    ELSE st

\* return output[:i]
LoopResult(st) == [out |-> SubSeq(st.output, 1, st.i), ok |-> st.ok]

\* the test with < in place of <=
tooShortStrict(data) == Len(data) < Margin

\* the test len(data) <= 16
tooShort(data) == Len(data) <= Margin

\* [out |-> the returned sequence, ok |-> no index was out of range]
resampleChannelData(r, data) ==
    IF tooShort(data) THEN [out |-> Zeros(Len(data)), ok |-> TRUE]
    ELSE LoopResult(Loop(r, data, LoopInit(r, data)))

(***************************************************************************)
(* The buffer adapter                                                      *)
(***************************************************************************)
\* the split loop: data[i] is appended to channels[i % Channels]
RECURSIVE Split(_, _, _, _)
Split(r, data, i, channels) ==
    IF i >= Len(data) THEN channels
    ELSE Split(r, data, i + 1,
               [channels EXCEPT ![(i % r.Channels) + 1] =
                    Append(@, data[i + 1])])

\* len(resampled): int((float64(len(data))/float64(FromRate))*float64(ToRate))
resampledLen(r, data) ==
    FTrunc(FMul(FDiv(FInt(Len(data)), FInt(r.FromRate)), FInt(r.ToRate)))

\* the re-interleave loop without the clamp of dataIdx to dataLen - 1
InterleaveNoClamp(r, resampledData, i) ==
    LET chan == resampledData[(i % Len(resampledData)) + 1]
        dataLen == Len(chan)
        dataIdx == i \div r.Channels
    IN  IF dataLen = 0 THEN <<FZero, TRUE>>
        ELSE IF dataIdx + 1 \in 1..dataLen THEN <<chan[dataIdx + 1], TRUE>>
        ELSE <<FZero, FALSE>>

\* the slot resampled[i] after the re-interleave loop's iteration i, as
\* <<value, ok>>
Interleave(r, resampledData, i) ==
    LET chan == resampledData[(i % Len(resampledData)) + 1]
        dataLen == Len(chan)
        idx0 == i \div r.Channels
        idx1 == IF idx0 > dataLen - 1 THEN dataLen - 1 ELSE idx0
        dataIdx == IF idx1 < 0 THEN 0 ELSE idx1
    IN  IF dataLen = 0 THEN <<FZero, TRUE>>
        ELSE IF dataIdx + 1 \in 1..dataLen THEN <<chan[dataIdx + 1], TRUE>>
        ELSE <<FZero, FALSE>>

\* the loop over the channels: resampledData[c] = resampleChannelData(channels[c])
RECURSIVE ResampleChannels(_, _, _, _)
ResampleChannels(r, channels, c, res) ==
    IF c >= Len(channels) THEN res
    ELSE ResampleChannels(r, channels, c + 1,
                          Append(res, resampleChannelData(r, channels[c + 1])))

\* the sequence of the fields k of a sequence of records
RECURSIVE Column(_, _)
Column(rows, fld) ==
    IF rows = << >> THEN << >>
    ELSE <<Head(rows)[fld]>> \o Column(Tail(rows), fld)

\* the buffer resampled of n slots once the re-interleave loop has run
Interleaved(r, n, resampledData, ok) ==
    [kind |-> "new",
     out |-> [k \in 1..n |-> Interleave(r, resampledData, k - 1)[1]],
     ok |-> ok /\ \A k \in 1..n : Interleave(r, resampledData, k - 1)[2]]

\* res holds what resampleChannelData returned for each channel
Resampled(r, n, res) ==
    Interleaved(r, n, Column(res, "out"), \A c \in 1..Len(res) : res[c].ok)

\* ResampleFloat64 that returns a copy when the rates are equal
ResampleFloat64Copy(r, data) ==
    IF Len(data) = 0 THEN [kind |-> "nil", out |-> << >>, ok |-> TRUE]
    ELSE IF r.FromRate = r.ToRate
    THEN [kind |-> "new", out |-> data, ok |-> TRUE]
    ELSE Resampled(r, resampledLen(r, data),
                   ResampleChannels(r,
                       Split(r, data, 0, [c \in 1..r.Channels |-> << >>]),
                       0, << >>))

\* ResampleFloat64 on a buffer holding data: kind is "nil" (return nil),
\* "same" (return data[:], the argument's storage) or "new" (a buffer
\* allocated by the call, holding out)
ResampleFloat64(r, data) ==
    IF Len(data) = 0 THEN [kind |-> "nil", out |-> << >>, ok |-> TRUE]
    ELSE IF r.FromRate = r.ToRate
    THEN [kind |-> "same", out |-> data, ok |-> TRUE]
    ELSE Resampled(r, resampledLen(r, data),
                   ResampleChannels(r,
                       Split(r, data, 0, [c \in 1..r.Channels |-> << >>]),
                       0, << >>))

(***************************************************************************)
(* The 16-bit adapter                                                      *)
(***************************************************************************)
MinInt16 == -32768

MaxInt16 == 32767

\* int16(f): the fraction is discarded; Go leaves the result of a value
\* outside int16 to the implementation
ToInt16(f) ==
    LET t == FTrunc(f)
    IN  IF t \in MinInt16..MaxInt16 THEN t ELSE "implementation-dependent"

\* the normalisation dividing by 0x8000
NormaliseBy32768(data) ==
    [i \in 1..Len(data) |-> FDiv(FInt(data[i]), FInt(MaxInt16 + 1))]

\* f64data: every sample divided by 0x7FFF
Normalise(data) == [i \in 1..Len(data) |-> FDiv(FInt(data[i]), F0x7FFF)]

\* resampledInt16: every sample multiplied by 0x7FFF and converted
Denormalise(f) == [i \in 1..Len(f) |-> ToInt16(FMul(f[i], F0x7FFF))]

\* what ResampleInt16 returns, and the buffers it went through
Int16Result(f64data, resampledf64) ==
    [f64data |-> f64data,
     kind |-> resampledf64.kind,
     f64out |-> resampledf64.out,
     out |-> Denormalise(resampledf64.out),
     ok |-> resampledf64.ok]

\* ResampleInt16 on a buffer holding data: f64data is the normalised copy,
\* kind and f64out what ResampleFloat64 returned for it, out the 16-bit
\* buffer returned
ResampleInt16(r, data) ==
    Int16Result(Normalise(data), ResampleFloat64(r, Normalise(data)))

(***************************************************************************)
(* Bounds of the model and the inputs drawn within them                    *)
(***************************************************************************)
\* channel counts given to NewResampler run from -1 to MaxChannels
MaxChannels == 2

\* sample rates given to NewResampler run from -1 to MaxRate
MaxRate == 3

\* buffers hold 0..MaxShort samples, or 16 per channel and -1..MaxExtra more
MaxShort == 3

MaxExtra == 4

\* float buffers are filled with one of the patterns 0..MaxPattern
MaxPattern == 2

\* 16-bit buffers are filled with one of the patterns 1..MaxPattern16
MaxPattern16 == 2

Nil == "nil"

\* sample i (from 0) of float pattern p: zeros, the ramp 0, 1, 2, ..., or
\* a curve of multiples of 1/p
SampleAt(p, i) ==
    IF p = 0 THEN FZero
    ELSE IF p = 1 THEN FInt(i)
    ELSE FDiv(FInt(((i * i + p * i) % 7) - 3), FInt(p))

\* sample i (from 0) of 16-bit pattern p: 0, 16384, -16384 repeated, the
\* extreme values repeated, or values spread over the range of int16
Sample16At(p, i) ==
    IF p = 1 THEN (CASE i % 3 = 0 -> 0 [] i % 3 = 1 -> 16384 [] OTHER -> -16384)
    ELSE IF p = 2
    THEN (CASE i % 4 = 0 -> MaxInt16 [] i % 4 = 1 -> MinInt16
            [] i % 4 = 2 -> 1 [] OTHER -> -1)
    ELSE (((i + 1) * p * 10007) % 65536) + MinInt16

RECURSIVE Buffer(_, _)
Buffer(p, n) ==
    IF n = 0 THEN << >> ELSE Append(Buffer(p, n - 1), SampleAt(p, n - 1))

RECURSIVE Buffer16(_, _)
Buffer16(p, n) ==
    IF n = 0 THEN << >> ELSE Append(Buffer16(p, n - 1), Sample16At(p, n - 1))

\* the buffer lengths tried with a resampler of ch channels
Lens(ch) == (0..MaxShort) \cup {Margin * ch + k : k \in (-1)..MaxExtra}

ArgChannels == (-1)..MaxChannels

ArgRates == (-1)..MaxRate

(***************************************************************************)
(* The program's state                                                     *)
(***************************************************************************)
VARIABLES
    pc,         \* where the caller is: "init", "failed", "ready", "returned", "written"
    args,       \* the arguments of the NewResampler call made
    resampler,  \* the *Resampler it returned: its three fields, or nil
    err,        \* the error it returned: Nil, or the argument rejected
    heap,       \* the backing arrays allocated so far; a slice names one by its index
    call,       \* the resample call made: its argument and result slices
    cs,         \* a run of resampleChannelData, iteration by iteration
    gs          \* two goroutines calling on one Resampler, step by step

vars == <<pc, args, resampler, err, heap, call, cs, gs>>

NoCall == [op |-> Nil]

\* the nil *Resampler
NilResampler == [nil |-> TRUE]

NilSlice == [arr |-> 0, len |-> 0]

\* the contents seen through a slice
Contents(h, sl) == IF sl.arr = 0 THEN << >> ELSE SubSeq(h[sl.arr], 1, sl.len)

(***************************************************************************)
(* NewResampler                                                            *)
(***************************************************************************)
\* NewResampler that checks the two rates before the channel count
NewResamplerRatesFirst(channels, inputRate, outputRate) ==
    IF inputRate < 1 THEN <<NilResampler, "inputRate">>
    ELSE IF outputRate < 1 THEN <<NilResampler, "outputRate">>
    ELSE IF channels < 1 THEN <<NilResampler, "channels">>
    ELSE <<[FromRate |-> inputRate, ToRate |-> outputRate,
            Channels |-> channels], Nil>>

\* <<resampler, err>> as NewResampler returns them
NewResamplerResult(channels, inputRate, outputRate) ==
    IF channels < 1 THEN <<NilResampler, "channels">>
    ELSE IF inputRate < 1 THEN <<NilResampler, "inputRate">>
    ELSE IF outputRate < 1 THEN <<NilResampler, "outputRate">>
    ELSE <<[FromRate |-> inputRate, ToRate |-> outputRate,
            Channels |-> channels], Nil>>

NewResampler(channels, inputRate, outputRate) ==
    /\ pc = "init"
    /\ LET res == NewResamplerResult(channels, inputRate, outputRate)
       IN  /\ resampler' = res[1]
           /\ err' = res[2]
           /\ pc' = IF res[2] = Nil THEN "ready" ELSE "failed"
    /\ args' = <<channels, inputRate, outputRate>>
    /\ UNCHANGED <<heap, call, cs, gs>>

(***************************************************************************)
(* The caller hands a buffer to ResampleFloat64 or ResampleInt16           *)
(***************************************************************************)
\* the heap and the returned slice after ResampleFloat64 ran on the slice
\* data of heap h and produced res
FloatReturn(h, data, res) ==
    IF ~res.ok \/ res.kind = "nil"
    THEN [heap |-> h, ret |-> NilSlice, ok |-> res.ok]
    ELSE IF res.kind = "same" THEN [heap |-> h, ret |-> data, ok |-> TRUE]
    ELSE [heap |-> Append(h, res.out),
          ret |-> [arr |-> Len(h) + 1, len |-> Len(res.out)], ok |-> TRUE]

\* the heap and the returned slice after ResampleInt16 ran on heap h and
\* produced res: the normalised copy, the buffer ResampleFloat64 allocated
\* if it did, and the 16-bit result are new arrays
Int16Return(h, res) ==
    IF ~res.ok THEN [heap |-> Append(h, res.f64data), ret |-> NilSlice,
                     ok |-> FALSE]
    ELSE IF res.kind = "new"
    THEN [heap |-> h \o <<res.f64data, res.f64out, res.out>>,
          ret |-> [arr |-> Len(h) + 3, len |-> Len(res.out)], ok |-> TRUE]
    ELSE [heap |-> h \o <<res.f64data, res.out>>,
          ret |-> [arr |-> Len(h) + 2, len |-> Len(res.out)], ok |-> TRUE]

\* the call returns to the caller
Return(op, p, data, after) ==
    /\ heap' = after.heap
    /\ call' = [op |-> op, pattern |-> p, data |-> data, ret |-> after.ret,
                ok |-> after.ok, wrote |-> << >>]
    /\ pc' = "returned"
    /\ UNCHANGED <<args, resampler, err, cs, gs>>

\* the caller fills a buffer of n samples with pattern p and hands it to
\* ResampleFloat64
CallFloat64(p, n) ==
    /\ pc = "ready"
    /\ n \in Lens(resampler.Channels)
    /\ Return("float64", p, [arr |-> 1, len |-> n],
              FloatReturn(<<Buffer(p, n)>>, [arr |-> 1, len |-> n],
                          ResampleFloat64(resampler, Buffer(p, n))))

\* the same with a 16-bit buffer and ResampleInt16
CallInt16(p, n) ==
    /\ pc = "ready"
    /\ n \in Lens(resampler.Channels)
    /\ Return("int16", p, [arr |-> 1, len |-> n],
              Int16Return(<<Buffer16(p, n)>>,
                          ResampleInt16(resampler, Buffer16(p, n))))

\* the value the caller stores: a sample no pattern holds
Stored(op) == IF op = "float64" THEN FInt(7) ELSE 7

\* the caller stores a value in the first or the last element of the slice
\* it got back
CallerWrite(atEnd) ==
    /\ pc = "returned"
    /\ call.ret.len > 0
    /\ LET i == IF atEnd THEN call.ret.len - 1 ELSE 0
       IN  /\ heap' = [heap EXCEPT ![call.ret.arr][i + 1] = Stored(call.op)]
           /\ call' = [call EXCEPT !.wrote = <<i, Stored(call.op)>>]
    /\ pc' = "written"
    /\ UNCHANGED <<args, resampler, err, cs, gs>>

\* every buffer length tried
AllLens == UNION {Lens(ch) : ch \in 1..MaxChannels}

Init ==
    /\ pc = "init"
    /\ args = << >>
    /\ resampler = NilResampler
    /\ err = Nil
    /\ heap = << >>
    /\ call = NoCall
    /\ cs = NoCall
    /\ gs = NoCall

Next ==
    \/ \E channels \in ArgChannels, inputRate, outputRate \in ArgRates :
            NewResampler(channels, inputRate, outputRate)
    \/ \E p \in 0..MaxPattern, n \in AllLens : CallFloat64(p, n)
    \/ \E p \in 1..MaxPattern16, n \in AllLens : CallInt16(p, n)
    \/ \E atEnd \in BOOLEAN : CallerWrite(atEnd)

Spec == Init /\ [][Next]_vars

(***************************************************************************)
(* One run of resampleChannelData, an iteration of its loop at a time, on  *)
(* a channel of the configuration in resampler                             *)
(***************************************************************************)
\* the channel lengths tried: around the margin of 16, and short ones
ChannelLens == (0..MaxShort) \cup {Margin + k : k \in (-1)..MaxExtra}

\* the configurations NewResampler can return
Resamplers ==
    {NewResamplerResult(c, f, t)[1] :
        c \in 1..MaxChannels, f \in 1..MaxRate, t \in 1..MaxRate}

\* ResampleFloat64 calls resampleChannelData when the rates differ
InitChannel ==
    /\ pc = "ready"
    /\ args = << >>
    /\ resampler \in {r \in Resamplers : r.FromRate # r.ToRate}
    /\ err = Nil
    /\ heap = << >>
    /\ call = NoCall
    /\ gs = NoCall
    /\ \E p \in 0..MaxPattern, n \in ChannelLens :
           cs = [pc |-> "entry", pattern |-> p, data |-> Buffer(p, n),
                 st |-> NoCall, last |-> NoCall, ret |-> << >>]

\* the test of the length, and the loop's initialisation
ChannelEnter ==
    /\ cs.pc = "entry"
    /\ cs' = IF tooShort(cs.data)
             THEN [cs EXCEPT !.pc = "done", !.ret = Zeros(Len(cs.data))]
             ELSE [cs EXCEPT !.pc = "loop", !.st = LoopInit(resampler, cs.data)]
    /\ UNCHANGED <<pc, args, resampler, err, heap, call, gs>>

\* one iteration; last keeps the cursor and the index it ran with
ChannelIterate ==
    /\ cs.pc = "loop"
    /\ cs.st.ok
    /\ LoopTest(cs.data, cs.st)
    /\ cs' = [cs EXCEPT !.st = LoopBody(resampler, cs.data, cs.st),
                        !.last = [x |-> cs.st.x, i |-> cs.st.i]]
    /\ UNCHANGED <<pc, args, resampler, err, heap, call, gs>>

\* the loop ends and output[:i] is returned
ChannelReturn ==
    /\ cs.pc = "loop"
    /\ ~(cs.st.ok /\ LoopTest(cs.data, cs.st))
    /\ cs' = [cs EXCEPT !.pc = "done", !.ret = LoopResult(cs.st).out]
    /\ UNCHANGED <<pc, args, resampler, err, heap, call, gs>>

NextChannel == ChannelEnter \/ ChannelIterate \/ ChannelReturn

SpecChannel == InitChannel /\ [][NextChannel]_vars

(***************************************************************************)
(* Two goroutines call on one Resampler.  A call runs in steps; between    *)
(* two steps the other goroutine may run.  A step reads the Resampler and  *)
(* the caller's buffer where the code reads them.                          *)
(***************************************************************************)
\* an allocation that reuses the caller's first buffer when it is long
\* enough
AllocInPlace(h, n) ==
    IF n <= Len(h[1]) THEN [heap |-> h, arr |-> 1]
    ELSE [heap |-> Append(h, Zeros(n)), arr |-> Len(h) + 1]

\* make([]T, n): a new array of n zero values at the next address
Alloc(h, n) == [heap |-> Append(h, Zeros(n)), arr |-> Len(h) + 1]

\* the array of slice sl gets the values vals, from its start
Store(h, sl, vals) ==
    [h EXCEPT ![sl.arr] = vals \o SubSeq(@, Len(vals) + 1, Len(@))]

\* the lengths tried: empty, short, and 16 per channel and MaxExtra more
ConcLens(ch) == {0, MaxShort, Margin * ch + MaxExtra}

\* a goroutine about to call op on the slice in
Goroutine(op, in) ==
    [op |-> op, pc |-> IF op = "int16" THEN "convert" ELSE "start",
     in |-> in, data |-> in, channels |-> << >>, res |-> << >>,
     fret |-> NilSlice, ret |-> NilSlice, begun |-> FALSE, overlap |-> FALSE]

\* goroutine 1 calls ResampleFloat64 on the float buffer; goroutine 2 calls
\* it on the same buffer, or calls ResampleInt16 on the 16-bit buffer.
\* call keeps the two buffers, and what each function returns for its
\* buffer when it runs alone
InitConc ==
    /\ pc = "ready"
    /\ \E c \in 1..MaxChannels, f, t \in 1..MaxRate :
           /\ args = <<c, f, t>>
           /\ resampler = NewResamplerResult(c, f, t)[1]
           /\ \E n \in ConcLens(c) :
                  heap = <<Buffer(MaxPattern, n), Buffer16(MaxPattern16, n)>>
    /\ err = Nil
    /\ call = [op |-> Nil, inputs |-> heap,
               alone |-> <<ResampleFloat64(resampler, heap[1]).out,
                           ResampleInt16(resampler, heap[2]).out>>]
    /\ cs = NoCall
    /\ \E op \in {"float64", "int16"} :
           gs = <<Goroutine("float64", [arr |-> 1, len |-> Len(heap[1])]),
                  Goroutine(op, [arr |-> IF op = "int16" THEN 2 ELSE 1,
                                 len |-> Len(heap[1])])>>

\* goroutine g moves to the state next; overlap records that the other
\* goroutine was then in the middle of its call
Step(g, next) ==
    /\ gs' = [gs EXCEPT ![g] =
                 [next EXCEPT !.begun = TRUE,
                              !.overlap = @ \/ (gs[3 - g].begun
                                                /\ gs[3 - g].pc # "done")]]
    /\ UNCHANGED <<pc, args, resampler, err, call, cs>>

\* ResampleInt16: f64data is allocated and filled
GoConvert(g) ==
    /\ gs[g].pc = "convert"
    /\ LET a == Alloc(heap, gs[g].in.len)
           sl == [arr |-> Alloc(heap, gs[g].in.len).arr, len |-> gs[g].in.len]
       IN  /\ heap' = Store(a.heap, sl, Normalise(Contents(heap, gs[g].in)))
           /\ Step(g, [gs[g] EXCEPT !.pc = "start", !.data = sl])

\* ResampleFloat64: the two early returns, else the split loop and the
\* allocation of resampled
GoStart(g) ==
    /\ gs[g].pc = "start"
    /\ IF gs[g].data.len = 0 \/ resampler.FromRate = resampler.ToRate
       THEN /\ heap' = heap
            /\ Step(g, [gs[g] EXCEPT
                           !.pc = IF gs[g].op = "int16" THEN "back" ELSE "done",
                           !.fret = IF gs[g].data.len = 0 THEN NilSlice
                                    ELSE gs[g].data,
                           !.ret = IF gs[g].data.len = 0 THEN NilSlice
                                   ELSE gs[g].data])
       ELSE LET a == Alloc(heap, resampledLen(resampler,
                                              Contents(heap, gs[g].data)))
            IN  /\ heap' = a.heap
                /\ Step(g, [gs[g] EXCEPT
                               !.pc = "channels",
                               !.channels =
                                   Split(resampler, Contents(heap, gs[g].data),
                                         0, [c \in 1..resampler.Channels |-> << >>]),
                               !.fret = [arr |-> a.arr,
                                         len |-> Len(a.heap[a.arr])]])

\* ResampleFloat64: the loop that resamples the channels
GoChannels(g) ==
    /\ gs[g].pc = "channels"
    /\ heap' = heap
    /\ Step(g, [gs[g] EXCEPT
                   !.pc = "interleave",
                   !.res = ResampleChannels(resampler, gs[g].channels, 0, << >>)])

\* ResampleFloat64: the re-interleave loop, and the return
GoInterleave(g) ==
    /\ gs[g].pc = "interleave"
    /\ heap' = Store(heap, gs[g].fret,
                     Resampled(resampler, gs[g].fret.len, gs[g].res).out)
    /\ Step(g, [gs[g] EXCEPT
                   !.pc = IF gs[g].op = "int16" THEN "back" ELSE "done",
                   !.ret = gs[g].fret])

\* ResampleInt16: resampledInt16 is allocated, filled and returned
GoBack(g) ==
    /\ gs[g].pc = "back"
    /\ LET a == Alloc(heap, gs[g].fret.len)
           sl == [arr |-> Alloc(heap, gs[g].fret.len).arr,
                  len |-> gs[g].fret.len]
       IN  /\ heap' = Store(a.heap, sl,
                            Denormalise(Contents(heap, gs[g].fret)))
           /\ Step(g, [gs[g] EXCEPT !.pc = "done", !.ret = sl])

NextConc ==
    \E g \in 1..2 :
        \/ GoConvert(g)
        \/ GoStart(g)
        \/ GoChannels(g)
        \/ GoInterleave(g)
        \/ GoBack(g)

SpecConc == InitConc /\ [][NextConc]_vars

(***************************************************************************)
(* Properties of NewResampler, ResampleFloat64 and ResampleInt16 (Spec)    *)
(***************************************************************************)
Returned == pc \in {"returned", "written"}

\* the buffer the caller handed in, and the one it got back
Input == Contents(heap, call.data)

Output == Contents(heap, call.ret)

\* the call went through the resampling path of ResampleFloat64
Resampling == resampler.FromRate # resampler.ToRate /\ call.data.len > 0

\* C1: NewResampler checks the channel count, then the source rate, then
\* the target rate; the first one below 1 decides the error and no resampler
\* is returned; when all three are at least 1 the resampler holds exactly
\* the three values and there is no error; never both, never neither
C1_ConstructValidation ==
    pc # "init" =>
        /\ args[1] < 1 => err = "channels"
        /\ (args[1] >= 1 /\ args[2] < 1) => err = "inputRate"
        /\ (args[1] >= 1 /\ args[2] >= 1 /\ args[3] < 1) => err = "outputRate"
        /\ (args[1] >= 1 /\ args[2] >= 1 /\ args[3] >= 1) =>
               /\ err = Nil
               /\ resampler = [Channels |-> args[1], FromRate |-> args[2],
                               ToRate |-> args[3]]
        /\ (err = Nil) # (resampler = NilResampler)

\* every argument is 0: the channel count is the one reported
C1_Witness ==
    args = <<0, 0, 0>> /\ err = "channels" /\ resampler = NilResampler

\* C2: with equal rates ResampleFloat64 returns, for a non-empty buffer of
\* any length, a slice of the caller's own array with the same length and
\* the samples untouched, and a store through that slice is seen through
\* the input
C2_IdentityAliases ==
    (Returned /\ call.op = "float64" /\ call.data.len > 0
              /\ resampler.FromRate = resampler.ToRate) =>
        /\ call.ret = call.data
        /\ pc = "returned" => Output = Buffer(call.pattern, call.data.len)
        /\ pc = "written" =>
               /\ Input[call.wrote[1] + 1] = call.wrote[2]
               /\ Input = Output

\* 3 samples on 2 channels, less than 16 and not a multiple of the
\* channel count, come back as they are and the caller's store is seen
C2_Witness ==
    /\ pc = "written" /\ call.op = "float64"
    /\ resampler.FromRate = resampler.ToRate /\ resampler.Channels = 2
    /\ call.data.len = 3 /\ call.ret.arr = 1
    /\ Input[3] = Stored("float64")

\* C3: no resample call indexes a window, an output buffer or a channel
\* out of range, whatever the buffer, and an empty buffer gives an empty
\* result
C3_NeverFails ==
    Returned => /\ call.ok
                /\ call.data.len = 0 => call.ret.len = 0

\* rates 1 to 3 and 18 samples: the loop fills all 6 slots of its output
C3_Witness ==
    /\ pc = "returned" /\ call.ok /\ call.op = "float64"
    /\ resampler = [Channels |-> 1, FromRate |-> 1, ToRate |-> 3]
    /\ call.data.len = Margin + 2
    /\ Len(resampleChannelData(resampler, Input).out)
           = outputCap(resampler, Input)

\* the samples of channel c (from 0) of an interleaved buffer
ChannelOf(data, c, channels) ==
    [j \in 1..((Len(data) - c + channels - 1) \div channels) |->
        data[(j - 1) * channels + c + 1]]

\* slot i (from 0) of the output as the claim gives it: 0 if the channel's
\* resampled sequence Rc is empty, else Rc[min(i div channels, len - 1)]
SlotOf(Rc, i, channels) ==
    IF Len(Rc) = 0 THEN FZero
    ELSE Rc[(IF i \div channels < Len(Rc) - 1 THEN i \div channels
             ELSE Len(Rc) - 1) + 1]

\* C6: on the resampling path ResampleFloat64 returns a new buffer of
\* int((L / FromRate) * ToRate) slots, and slot i holds 0 if the resampled
\* sequence of channel i mod channels is empty, else its element
\* min(i div channels, length - 1)
C6_OutputLayout ==
    (pc = "returned" /\ call.op = "float64" /\ Resampling) =>
        /\ call.ret.arr # call.data.arr
        /\ call.ret.len =
               FTrunc(FMul(FDiv(FInt(call.data.len), FInt(resampler.FromRate)),
                           FInt(resampler.ToRate)))
        /\ \A c \in 0..(resampler.Channels - 1) :
               LET Rc == resampleChannelData(resampler,
                             ChannelOf(Input, c, resampler.Channels)).out
               IN  \A i \in 0..(call.ret.len - 1) :
                       i % resampler.Channels = c =>
                           Output[i + 1] = SlotOf(Rc, i, resampler.Channels)

\* 20 samples of the ramp, rates 1 to 2: 40 slots, 7 resampled samples,
\* and every slot from the 7th on holds the last of them
C6_Witness ==
    /\ pc = "returned" /\ call.op = "float64" /\ call.pattern = 1
    /\ resampler = [Channels |-> 1, FromRate |-> 1, ToRate |-> 2]
    /\ call.data.len = Margin + 4
    /\ call.ret.len = 2 * (Margin + 4)
    /\ ~IsZeroF(Output[7])
    /\ Output[call.ret.len] = Output[7]
    /\ Output[6] # Output[7]

\* C7: with equal rates ResampleInt16 returns a new buffer that holds, at
\* every position, int16((v / 32767) * 32767) computed in float64, and
\* that is v itself: 0, 16384, -16384 comes back as 0, 16384, -16384
C7_IdentityInt16 ==
    (pc = "returned" /\ call.op = "int16" /\ call.data.len > 0
                    /\ resampler.FromRate = resampler.ToRate) =>
        /\ call.ret.arr # call.data.arr
        /\ call.ret.len = call.data.len
        /\ \A i \in 1..call.data.len :
               /\ Output[i] = FTrunc(FMul(FDiv(FInt(Input[i]), FInt(MaxInt16)),
                                          FInt(MaxInt16)))
               /\ Output[i] = Input[i]

C7_Witness ==
    /\ pc = "returned" /\ call.op = "int16"
    /\ resampler.FromRate = resampler.ToRate
    /\ Input = <<0, 16384, -16384>>
    /\ Output = <<0, 16384, -16384>>

\* C7 as the specification words it: 0, 16384, -16384 comes back as
\* 0, 16383, -16384
C7_AsSpecified ==
    (pc = "returned" /\ call.op = "int16"
        /\ resampler.FromRate = resampler.ToRate
        /\ Input = <<0, 16384, -16384>>) => Output = <<0, 16383, -16384>>

CeilSteps(n, r) == (n * r.ToRate + r.FromRate - 1) \div r.FromRate

RECURSIVE IsPow2(_)
IsPow2(n) == n = 1 \/ (n > 1 /\ n % 2 = 0 /\ IsPow2(n \div 2))

\* FromRate/Channels, ToRate/Channels, their quotient and its multiples are
\* computed without rounding
ExactCursor(r) == IsPow2(r.ToRate) /\ IsPow2(r.Channels)

\* C5: for more than 16 samples the loop returns one sample per cursor
\* step, 2 * step, ... below availSamples.  When the cursor is computed
\* without rounding that is ceil(availSamples / step) - 1 samples, whether
\* step divides availSamples or not; with rounding it is that or one more,
\* the whole capacity
C5_OutputCount ==
    (cs.pc = "done" /\ Len(cs.data) > 16) =>
        LET c == CeilSteps(availSamples(cs.data), resampler)
        IN  /\ Len(cs.ret) \in {c - 1, c}
            /\ Len(cs.ret) <= Len(cs.st.output)
            /\ ExactCursor(resampler) => Len(cs.ret) = c - 1

\* step 1.5 and 4 available samples: 2 samples, not ceil(4 / 1.5) = 3
C5_Witness ==
    /\ cs.pc = "done"
    /\ resampler = [Channels |-> 1, FromRate |-> 3, ToRate |-> 2]
    /\ availSamples(cs.data) = 4
    /\ Len(cs.st.output) = 3
    /\ Len(cs.ret) = 2

\* C5 as the specification words it: ceil(availSamples / step) samples,
\* one fewer only when step divides availSamples
C5_AsSpecified ==
    (cs.pc = "done" /\ Len(cs.data) > 16) =>
        Len(cs.ret) =
            IF (availSamples(cs.data) * resampler.ToRate) % resampler.FromRate = 0
            THEN CeilSteps(availSamples(cs.data), resampler) - 1
            ELSE CeilSteps(availSamples(cs.data), resampler)

\* an iteration has just run
Iterated == cs.pc = "loop" /\ cs.last # NoCall /\ cs.st.ok

\* its window data[yi0 : yi0+4] and the sample it stored
Window == SubSeq(cs.data, FTrunc(xi0(cs.last.x)) + 1, FTrunc(xi0(cs.last.x)) + 4)

Emitted == cs.st.output[cs.last.i + 1]

FHalf == FDiv(FOne, FTwo)

\* the straight line through (xi, y0) and (xi + 1, y1), at x
Lerp(xi, y0, y1, x) ==
    FAdd(FMul(y0, FSub(FAdd(xi, FOne), x)), FMul(y1, FSub(x, xi)))

EqualDifferences(w) ==
    /\ FEq(FSub(w[2], w[1]), FSub(w[3], w[2]))
    /\ FEq(FSub(w[3], w[2]), FSub(w[4], w[3]))

\* C9: when the four samples of the window have equal first differences
\* the raw value is the linear interpolation of the first two, and the
\* stored sample is that divided by 32767; for the ramp 0..19 and rates
\* 1 to 2 the first stored sample is 0.5 / 32767
C9_LinearWindow ==
    Iterated =>
        /\ EqualDifferences(Window) =>
               /\ IsZeroF(splineC1(Window)) /\ IsZeroF(splineC2(Window))
               /\ IsZeroF(splineM1(splineC1(Window), splineC2(Window)))
               /\ IsZeroF(splineM2(splineC1(Window), splineC2(Window)))
               /\ FEq(spline(xi0(cs.last.x), Window, cs.last.x),
                      Lerp(xi0(cs.last.x), Window[1], Window[2], cs.last.x))
               /\ FEq(Emitted,
                      FDiv(Lerp(xi0(cs.last.x), Window[1], Window[2],
                                cs.last.x), F0x7FFF))
        /\ (/\ resampler = [Channels |-> 1, FromRate |-> 1, ToRate |-> 2]
            /\ cs.pattern = 1 /\ Len(cs.data) = 20 /\ cs.last.i = 0) =>
               /\ availSamples(cs.data) = 4
               /\ step(resampler) = FHalf
               /\ cs.last.x = FHalf
               /\ Window = <<FZero, FOne, FTwo, FThree>>
               /\ Emitted = FDiv(FHalf, F0x7FFF)

C9_Witness ==
    /\ Iterated
    /\ resampler = [Channels |-> 1, FromRate |-> 1, ToRate |-> 2]
    /\ cs.pattern = 1 /\ Len(cs.data) = 20 /\ cs.last.i = 0
    /\ EqualDifferences(Window)
    /\ Emitted = FDiv(FHalf, F0x7FFF)

\* the window with 1 added to its last sample y3
OtherY3(w) == [w EXCEPT ![4] = FAdd(w[4], FOne)]

\* C10: the base index is floor(x), so 0 <= x - xi0 < 1 and spline takes
\* its first branch in every iteration; the moment m2 has no influence on
\* the result; at an integer x the raw value is the sample at x.  (y3 does
\* have an influence, through c2 and m1.)
C10_FirstInterval ==
    Iterated =>
        LET x == cs.last.x
            xi == xi0(cs.last.x)
            yi == FTrunc(xi0(cs.last.x))
            w == Window
            raw == spline(xi0(cs.last.x), Window, cs.last.x)
        IN  /\ FLe(FInt(yi), x) /\ FLt(x, FInt(yi + 1))
            /\ FLe(FZero, FSub(x, xi)) /\ FLt(FSub(x, xi), FOne)
            /\ splineBranch(xi, x) = 0
            /\ Emitted = FDiv(raw, F0x7FFF)
            /\ raw = splineEval(splineM1(splineC1(w), splineC2(w)), FZero,
                                xi, w, x)
            /\ raw = splineEval(splineM1(splineC1(w), splineC2(w)), FOne,
                                xi, w, x)
            /\ FIsInt(x) => FEq(raw, cs.data[FTrunc(x) + 1])

\* an iteration between two samples whose result changes with y3
C10_Witness ==
    /\ Iterated
    /\ ~FIsInt(cs.last.x)
    /\ splineBranch(xi0(cs.last.x), cs.last.x) = 0
    /\ spline(xi0(cs.last.x), Window, cs.last.x)
           # spline(xi0(cs.last.x), OtherY3(Window), cs.last.x)

\* C10 as the specification words it: y3 never has an influence either
C10_AsSpecified ==
    Iterated =>
        /\ splineBranch(xi0(cs.last.x), cs.last.x) = 0
        /\ spline(xi0(cs.last.x), Window, cs.last.x)
               = spline(xi0(cs.last.x), OtherY3(Window), cs.last.x)

(***************************************************************************)
(* Properties of concurrent calls (SpecConc)                               *)
(***************************************************************************)
\* what the call of goroutine g returns when it runs alone on its input
Alone(g) == call.alone[gs[g].in.arr]

\* C8: no step of a resample call writes the Resampler or the caller's
\* buffer, and nothing is kept between calls: however the steps of two
\* calls on one Resampler interleave, its three fields keep the values
\* given to NewResampler, the input buffers keep their samples, and each
\* call returns what it returns when run alone
C8_NoSharedWrites ==
    /\ resampler = [Channels |-> args[1], FromRate |-> args[2],
                    ToRate |-> args[3]]
    /\ SubSeq(heap, 1, 2) = call.inputs
    /\ \A g \in 1..2 :
           gs[g].pc = "done" => Contents(heap, gs[g].ret) = Alone(g)

\* both calls have returned a non-empty resampled buffer, and each ran
\* steps while the other was in the middle of its call
C8_Witness ==
    /\ gs[1].pc = "done" /\ gs[2].pc = "done"
    /\ gs[1].overlap /\ gs[2].overlap
    /\ gs[2].op = "int16"
    /\ resampler.FromRate # resampler.ToRate
    /\ gs[1].ret.len > 0 /\ gs[2].ret.len > 0
    /\ \E i \in 1..gs[1].ret.len : ~IsZeroF(heap[gs[1].ret.arr][i])

=============================================================================
